---- MODULE Spec2Model ----
(***************************************************************************)
(* Model of utilities/mcp/mcp_connect.py: config resolution, construction *)
(* of MCPConnector, and the get_tools() / _load_all_tools() load pass run  *)
(* by asyncio tasks on one event loop.                                     *)
(***************************************************************************)
EXTENDS Integers, Sequences, FiniteSets, TLC

\* ------------------------------------------------------------------ bounds
MaxServers == 2     \* longest descriptor list
NumCalls == 2       \* number of get_tools() calls (one asyncio task each)
MaxConcServers == 1 \* longest descriptor list when calls run concurrently
TimeoutS == 2       \* timeout_s, in ticks

Tasks == 1..NumCalls
NoTask == 0
Never == -1

\* ------------------------------------------------------ python values
\* A python value is [t, n, v]: t its type, n its number / length for
\* scalars, v its items for lists.
PyNone == [t |-> "none", n |-> 0, v |-> <<>>]
PyAbsent == [t |-> "absent", n |-> 0, v |-> <<>>]
PyStr(k) == [t |-> "str", n |-> k, v |-> <<>>]
PyInt(k) == [t |-> "int", n |-> k, v |-> <<>>]
PyList(s) == [t |-> "list", n |-> Len(s), v |-> s]
PyDict(s, m, u) == [t |-> "dict", n |-> 0, v |-> <<s, m, u>>]
PyInvalid == [t |-> "invalid", n |-> 0, v |-> <<>>]

\* bool(x) for the values above
Truthy(x) ==
    CASE x.t = "list" -> x.v # <<>>
      [] x.t = "str" -> x.n # 0
      [] x.t = "int" -> x.n # 0
      [] x.t = "dict" -> \E k \in 1..3 : x.v[k].t # "absent"
      [] OTHER -> FALSE

\* a or b
PyOr(a, b) == IF Truthy(a) THEN a ELSE b

\* dict.get(key): the value, or None when the key is absent.
\* Keys: 1 = "servers", 2 = "mcpServers", 3 = "mcp_servers".
DictGet(d, k) == IF d.v[k].t = "absent" THEN PyNone ELSE d.v[k]

\* ------------------------------------------------------ descriptors
\* A descriptor is a mapping with or without a "name" key, or (for a
\* malformed caller input) a value that is not a mapping.
NoName == "<nokey>"
DescA == [isMap |-> TRUE, name |-> "a"]
DescB == [isMap |-> TRUE, name |-> "b"]
DescU == [isMap |-> TRUE, name |-> NoName]
DescBad == [isMap |-> FALSE, name |-> NoName]
MapDescs == {DescA, DescB, DescU}
AllDescs == MapDescs \cup {DescBad}

RECURSIVE SeqsUpTo(_, _)
SeqsUpTo(S, n) ==
    IF n = 0 THEN {<<>>}
    ELSE LET shorter == SeqsUpTo(S, n - 1)
         IN shorter \cup {Append(s, x) : s \in {q \in shorter : Len(q) = n - 1}, x \in S}

Distinct(s) == \A i, j \in 1..Len(s) : i # j => s[i] # s[j]

\* descriptor lists a caller may pass: mappings with unique names
GoodLists == {s \in SeqsUpTo(MapDescs, MaxServers) : Distinct(s)}
\* descriptor lists that may also hold a non-mapping entry
AnyLists == {s \in SeqsUpTo(AllDescs, MaxServers) : Distinct(s)}

\* ------------------------------------------------------ exceptions
\* Parent class of each exception class that can occur.
ExcParent(e) ==
    CASE e = "FileNotFoundError" -> "OSError"
      [] e = "OSError" -> "Exception"
      [] e = "ConnectError" -> "Exception"
      [] e = "TimeoutException" -> "Exception"
      [] e = "TimeoutError" -> "Exception"
      [] e = "RuntimeError" -> "Exception"
      [] e = "ValueError" -> "Exception"
      [] e = "TypeError" -> "Exception"
      [] e = "JSONDecodeError" -> "ValueError"
      [] e = "AttributeError" -> "Exception"
      [] e = "Exception" -> "BaseException"
      [] e = "CancelledError" -> "BaseException"
      [] OTHER -> "object"

RECURSIVE IsInstance(_, _)
IsInstance(e, cls) ==
    IF e = cls THEN TRUE
    ELSE IF e = "BaseException" \/ ExcParent(e) = "object" THEN FALSE
    ELSE IsInstance(ExcParent(e), cls)

NoExc == "none"

\* ------------------------------------------------------ config resolution
\* _load_servers_from_file(path): file is [kind, yamlOk, data], with kind
\* "missing" (path does not exist), "json" or "yaml" (by suffix); data is
\* the parsed content.  Result is [exc, val].
Raise(e) == [exc |-> e, val |-> <<>>]
Return(x) == [exc |-> NoExc, val |-> x]

\* the chain of "or" over the three recognised keys
ServersOf(data) == PyOr(PyOr(DictGet(data, 1), DictGet(data, 2)), DictGet(data, 3))

LoadServersFromFile(file) ==
    IF file.kind = "missing" THEN Raise("FileNotFoundError")
    ELSE IF file.kind = "yaml" /\ ~file.yamlOk THEN Raise("RuntimeError")
    ELSE IF file.data.t = "invalid" THEN Raise("JSONDecodeError")
    ELSE IF file.data.t = "dict" THEN
        LET servers == ServersOf(file.data)
        IN IF servers.t = "none" THEN Raise("ValueError")
           ELSE IF servers.t # "list" THEN Raise("TypeError")
           ELSE Return(servers.v)
    ELSE IF file.data.t = "list" THEN Return(file.data.v)
    ELSE Raise("TypeError")

\* _default_servers_config_path(): env1 = MCP_SERVERS_PATH and
\* env2 = MCP_CONFIG_PATH, each "unset", "empty" or "set"; existing is the
\* set of candidate indices (1..9) whose file exists.  Result: "none",
\* "env1", "env2", or a candidate index.
NumCandidates == 9
EnvStr(e) == IF e = "unset" THEN PyNone ELSE IF e = "empty" THEN PyStr(0) ELSE PyStr(1)

RECURSIVE FirstExisting(_, _)
FirstExisting(existing, i) ==
    IF i > NumCandidates THEN 0
    ELSE IF i \in existing THEN i
    ELSE FirstExisting(existing, i + 1)

DefaultServersConfigPath(env1, env2, existing) ==
    IF Truthy(PyOr(EnvStr(env1), EnvStr(env2)))
    THEN (IF Truthy(EnvStr(env1)) THEN "env1" ELSE "env2")
    ELSE IF FirstExisting(existing, 1) = 0 THEN "none"
    ELSE "cand"

\* suffix of a candidate: json, yaml, yml in turn
CandidateKind(i) == IF i % 3 = 1 THEN "json" ELSE "yaml"

\* the file found at the resolved path
ResolvedFile(c) ==
    LET p == DefaultServersConfigPath(c.env1, c.env2, c.existing)
    IN [kind |-> IF p = "cand" THEN CandidateKind(FirstExisting(c.existing, 1))
                 ELSE c.envFile,
        yamlOk |-> c.yamlOk, data |-> c.data]


\* ------------------------------------------------------------------ state
VARIABLES
    constructed,   \* "new" before __init__, "ok" once it returned, "raised" if it raised
    initExc,       \* the exception __init__ raised to its caller, or NoExc
    cfgIn,         \* the inputs of config resolution (history)
    cfgExc,        \* the exception _load_servers_from_file raised, or NoExc (history)
    servers,       \* self.servers
    tools,         \* self._tools: a reference into heap
    loaded,        \* self._loaded
    heap,          \* the list objects: heap[r] is the content of list r
    pc,            \* per call: "idle", "loop", "await", "done", "raised"
    idx,           \* per call: position of the for loop in self.servers (1-based)
    loaded_tools,  \* per call: the local loaded_tools, a reference into heap
    failures,      \* per call: the local failures
    ret,           \* per call: the list get_tools() returned, a reference into heap
    exc,           \* per call: the exception get_tools() raised, or NoExc
    log,           \* per call: what happened at each descriptor of its pass (history)
    cur,           \* the task holding the event loop, or NoTask
    built,         \* per descriptor index: number of _build_toolset calls (history)
    listed,        \* per descriptor index: number of toolset.get_tools() calls (history)
    writes,        \* number of assignments to self._tools by a pass (history)
    passes,        \* number of passes started (history)
    mutated        \* per call: whether the caller has mutated the returned list

vars == <<constructed, initExc, cfgIn, cfgExc, servers, tools, loaded, heap, pc, idx,
          loaded_tools, failures, ret, exc, log, cur, built, listed, writes, passes,
          mutated>>

instVars == <<constructed, initExc, cfgIn, cfgExc, servers>>
callVars == <<pc, idx, loaded_tools, failures, ret, exc, log>>

NoCfg == [env1 |-> "unset", env2 |-> "unset", envFile |-> "missing", existing |-> {},
          yamlOk |-> FALSE, data |-> PyNone, explicit |-> TRUE]
NoRef == 0

Init ==
    /\ constructed = "new"
    /\ initExc = NoExc
    /\ cfgIn = NoCfg
    /\ cfgExc = NoExc
    /\ servers = <<>>
    /\ tools = NoRef
    /\ loaded = FALSE
    /\ heap = <<>>
    /\ pc = [t \in Tasks |-> "idle"]
    /\ idx = [t \in Tasks |-> 0]
    /\ loaded_tools = [t \in Tasks |-> NoRef]
    /\ failures = [t \in Tasks |-> <<>>]
    /\ ret = [t \in Tasks |-> NoRef]
    /\ exc = [t \in Tasks |-> NoExc]
    /\ log = [t \in Tasks |-> <<>>]
    /\ cur = NoTask
    /\ built = [i \in 1..MaxServers |-> 0]
    /\ listed = [i \in 1..MaxServers |-> 0]
    /\ writes = 0
    /\ passes = 0
    /\ mutated = [t \in Tasks |-> FALSE]

\* ------------------------------------------------------------ __init__
\* the first three assignments of __init__: self._tools = [] is a new list
InitFields ==
    /\ heap' = <<<<>>>>
    /\ tools' = 1
    /\ loaded' = FALSE

\* MCPConnector(servers=lst): the caller supplies the descriptors
ConstructWith(lists) ==
    /\ constructed = "new"
    /\ \E lst \in lists :
        /\ servers' = lst
        /\ constructed' = "ok"
    /\ InitFields
    /\ UNCHANGED <<initExc, cfgIn, cfgExc, callVars, cur, built, listed, writes, passes,
                   mutated>>

ConstructExplicit == ConstructWith(GoodLists)
ConstructAny == ConstructWith(AnyLists)
ConstructConc == ConstructWith({s \in GoodLists : Len(s) <= MaxConcServers})

\* variant: the constructor lets the config error through
InitFromConfigReraise(p, r) ==
    IF p = "none" THEN [servers |-> <<>>, raised |-> NoExc]
    ELSE IF r.exc = NoExc THEN [servers |-> r.val, raised |-> NoExc]
    ELSE [servers |-> <<>>, raised |-> r.exc]

\* what __init__ does with the outcome of config resolution:
\* [servers, raised] for resolved path p and load result r
InitFromConfig(p, r) ==
    IF p = "none" THEN [servers |-> <<>>, raised |-> NoExc]
    ELSE IF r.exc = NoExc THEN [servers |-> r.val, raised |-> NoExc]
    ELSE IF IsInstance(r.exc, "Exception") THEN [servers |-> <<>>, raised |-> NoExc]
    ELSE [servers |-> <<>>, raised |-> r.exc]

\* the lists a config file may hold
ListA == <<DescA>>
ListB == <<DescB>>
ListU == <<DescU, DescA>>
KeyVals(lst) == {PyAbsent, PyNone, PyList(<<>>), PyList(lst), PyStr(1)}
DataVals ==
    {PyDict(s, m, u) : s \in KeyVals(ListA), m \in KeyVals(ListB), u \in KeyVals(ListU)}
      \cup {PyList(<<>>), PyList(ListU), PyNone, PyInt(1), PyInvalid}
CfgInputs ==
    [env1 : {"unset", "empty", "set"}, env2 : {"unset", "set"},
     envFile : {"missing", "json", "yaml"}, existing : {{}, {2}, {4, 7}},
     yamlOk : BOOLEAN, data : DataVals, explicit : {FALSE}]

\* MCPConnector(): servers is None, the descriptors come from the config file
ConstructFromConfig ==
    /\ constructed = "new"
    /\ \E c \in CfgInputs :
        LET p == DefaultServersConfigPath(c.env1, c.env2, c.existing)
            r == IF p = "none" THEN Return(<<>>) ELSE LoadServersFromFile(ResolvedFile(c))
            o == InitFromConfig(p, r)
        IN /\ cfgIn' = c
           /\ cfgExc' = r.exc
           /\ servers' = o.servers
           /\ initExc' = o.raised
           /\ constructed' = IF o.raised = NoExc THEN "ok" ELSE "raised"
    /\ InitFields
    /\ UNCHANGED <<callVars, cur, built, listed, writes, passes, mutated>>


\* ------------------------------------------------------------ tool sources
\* A tool handle is opaque; the model tags it with the index of the
\* descriptor whose source returned it.
Handle(i, h) == [src |-> i, h |-> h]
ToolSeqs(i) == {<<>>, <<Handle(i, "x")>>, <<Handle(i, "y"), Handle(i, "x")>>}

Ok(s) == [ok |-> TRUE, tools |-> s, exc |-> NoExc]
Fail(e) == [ok |-> FALSE, tools |-> <<>>, exc |-> e]

\* the per-server error kinds a factory or a source can raise
ServerExcs == {"FileNotFoundError", "ConnectError", "TimeoutException", "RuntimeError"}

\* self._build_toolset(server_cfg): returns a toolset or raises
BuildToolset(i) == {Ok(<<>>)} \cup {Fail(e) : e \in ServerExcs}

\* toolset.get_tools(): what the source answers, if it answers
SourceOutcomes(i) == {Ok(s) : s \in ToolSeqs(i)} \cup {Fail(e) : e \in ServerExcs}

\* when the source answers, in ticks after the call; Never if it does not
Whens == {TimeoutS - 1, TimeoutS, TimeoutS + 1, Never}
\* the time kept in the history of a pass that does not track times
Unrecorded == -2

\* variant: the call is awaited without a timer
WaitForNoTimer(when, out, timeout) == IF when = Never THEN {} ELSE {out}

\* asyncio.wait_for(aw, timeout): the source's answer when it comes before
\* the timeout, TimeoutError when it has not come by then; an answer that
\* comes on the very tick of the timeout races with the timer
WaitFor(when, out, timeout) ==
    IF when # Never /\ when < timeout THEN {out}
    ELSE IF when = timeout THEN {out, Fail("TimeoutError")}
    ELSE {Fail("TimeoutError")}

\* server_cfg.get("name", "<unnamed>")
NameOf(d) == IF d.name = NoName THEN "<unnamed>" ELSE d.name

\* variant: the catch-all clause is missing
ExceptClauseNoCatchAll(e) ==
    IF IsInstance(e, "FileNotFoundError") THEN "command not found"
    ELSE IF IsInstance(e, "ConnectError") \/ IsInstance(e, "TimeoutException")
        THEN "cannot connect"
    ELSE IF IsInstance(e, "TimeoutError") THEN "timed out"
    ELSE "propagate"

\* the except clauses of the loop body, in order: the reason recorded for
\* exception e, or "propagate" when no clause catches it
ExceptClause(e) ==
    IF IsInstance(e, "FileNotFoundError") THEN "command not found"
    ELSE IF IsInstance(e, "ConnectError") \/ IsInstance(e, "TimeoutException")
        THEN "cannot connect"
    ELSE IF IsInstance(e, "TimeoutError") THEN "timed out"
    ELSE IF IsInstance(e, "Exception") THEN "unexpected error"
    ELSE "propagate"

\* variant: the list itself is handed out
ListAlias(h, r) == [heap |-> h, ref |-> r]

\* list(r): a new list object with the content of r
ListCopy(h, r) == [heap |-> Append(h, h[r]), ref |-> Len(h) + 1]

\* variant: the new handles are put in front
ExtendFront(old, s) == s \o old

\* loaded_tools.extend(s)
Extend(old, s) == old \o s

\* variant: the timeout clause forgets to record the skip
RecordFailureNoTimeout(old, name, reason) ==
    IF reason = "timed out" THEN old ELSE Append(old, [name |-> name, reason |-> reason])

\* failures.append(reason)
RecordFailure(old, name, reason) == Append(old, [name |-> name, reason |-> reason])

\* variant: the pass accumulates into the cache itself
NewListAlias(h) == [heap |-> h, ref |-> tools]

\* loaded_tools: List[Any] = []: a new empty list object
NewList(h) == [heap |-> Append(h, <<>>), ref |-> Len(h) + 1]

\* variant: an empty cache counts as not loaded
AlreadyLoadedNonEmpty == loaded /\ heap[tools] # <<>>

\* if self._loaded: return
AlreadyLoaded == loaded

\* the call may be started: the instance exists and the event loop is free
CanStart(t) == constructed = "ok" /\ pc[t] = "idle" /\ cur = NoTask

\* get_tools() up to the first await of _load_all_tools(): return a copy
\* of the cache at once when loaded, else open a pass
StartCall(t) ==
    /\ CanStart(t)
    /\ IF AlreadyLoaded
       THEN LET c == ListCopy(heap, tools)
            IN /\ heap' = c.heap
               /\ ret' = [ret EXCEPT ![t] = c.ref]
               /\ pc' = [pc EXCEPT ![t] = "done"]
               /\ UNCHANGED <<idx, loaded_tools, failures, cur, passes>>
       ELSE /\ heap' = NewList(heap).heap
            /\ loaded_tools' = [loaded_tools EXCEPT ![t] = NewList(heap).ref]
            /\ failures' = [failures EXCEPT ![t] = <<>>]
            /\ idx' = [idx EXCEPT ![t] = 1]
            /\ pc' = [pc EXCEPT ![t] = "loop"]
            /\ cur' = t
            /\ passes' = passes + 1
            /\ UNCHANGED ret
    /\ UNCHANGED <<instVars, tools, loaded, exc, log, built, listed, writes, mutated>>

\* calls made one after another: call t is made when the calls before it
\* have returned or raised
SeqStart(t) ==
    /\ \A u \in Tasks : u < t => pc[u] \in {"done", "raised"}
    /\ StartCall(t)

\* calls made by concurrent tasks
ConcStart(t) == StartCall(t)

AtDescriptor(t) == pc[t] = "loop" /\ cur = t /\ idx[t] <= Len(servers)

\* exception e leaves _load_all_tools and get_tools: the call raises, and
\* the locals of the pass (loaded_tools, failures) go away with its frame
Unwind(t, e) ==
    /\ pc' = [pc EXCEPT ![t] = "raised"]
    /\ exc' = [exc EXCEPT ![t] = e]
    /\ cur' = NoTask
    /\ heap' = [heap EXCEPT ![loaded_tools[t]] = <<>>]
    /\ loaded_tools' = [loaded_tools EXCEPT ![t] = NoRef]
    /\ failures' = [failures EXCEPT ![t] = <<>>]
    /\ log' = [log EXCEPT ![t] = <<>>]
    /\ UNCHANGED idx

\* the loop body after the try statement: r is what the try body produced
AfterTry(t, r, entry) ==
    LET handler == IF r.ok THEN "none" ELSE ExceptClause(r.exc)
    IN IF handler = "propagate"
       THEN Unwind(t, r.exc)
       ELSE /\ log' = [log EXCEPT ![t] = Append(@, entry)]
            /\ heap' = IF r.ok THEN [heap EXCEPT ![loaded_tools[t]] = Extend(@, r.tools)]
                       ELSE heap
            /\ pc' = [pc EXCEPT ![t] = "loop"]
            /\ idx' = [idx EXCEPT ![t] = @ + 1]
            /\ failures' = [failures EXCEPT ![t] =
                   IF r.ok THEN @
                   ELSE RecordFailure(@, NameOf(servers[idx[t]]), handler)]
            /\ cur' = t
            /\ UNCHANGED <<exc, loaded_tools>>

Entry(t, stage, when, r) ==
    [i |-> idx[t], stage |-> stage, when |-> when, ok |-> r.ok, tools |-> r.tools,
     exc |-> r.exc]

\* server_cfg.get(...) on a descriptor that is not a mapping: AttributeError,
\* raised outside the try statement
BadDescriptor(t) ==
    /\ AtDescriptor(t)
    /\ ~servers[idx[t]].isMap
    /\ Unwind(t, "AttributeError")
    /\ UNCHANGED <<instVars, tools, loaded, ret, built, listed, writes, passes, mutated>>

\* _build_toolset raises: the descriptor is skipped without any await
BuildRaises(t) ==
    /\ AtDescriptor(t)
    /\ servers[idx[t]].isMap
    /\ built' = [built EXCEPT ![idx[t]] = @ + 1]
    /\ \E r \in BuildToolset(idx[t]) :
        /\ ~r.ok
        /\ AfterTry(t, r, Entry(t, "factory", Unrecorded, r))
    /\ UNCHANGED <<instVars, tools, loaded, ret, listed, writes, passes, mutated>>

\* _build_toolset returns, toolset.get_tools() is called and the task
\* suspends in asyncio.wait_for
BuildAndAwait(t) ==
    /\ AtDescriptor(t)
    /\ servers[idx[t]].isMap
    /\ \E r \in BuildToolset(idx[t]) : r.ok
    /\ built' = [built EXCEPT ![idx[t]] = @ + 1]
    /\ listed' = [listed EXCEPT ![idx[t]] = @ + 1]
    /\ pc' = [pc EXCEPT ![t] = "await"]
    /\ cur' = NoTask
    /\ UNCHANGED <<instVars, tools, loaded, heap, idx, loaded_tools, failures, ret, exc,
                   log, writes, passes, mutated>>

\* asyncio.wait_for returns or raises, and the task runs on to the next
\* descriptor; timed says whether the history keeps the time of the answer
ResumeWith(t, timed) ==
    /\ pc[t] = "await"
    /\ cur = NoTask
    /\ \E when \in Whens, out \in SourceOutcomes(idx[t]) :
        \E r \in WaitFor(when, out, TimeoutS) :
            AfterTry(t, r, Entry(t, "list", IF timed THEN when ELSE Unrecorded, r))
    /\ UNCHANGED <<instVars, tools, loaded, ret, built, listed, writes, passes, mutated>>

Resume(t) == ResumeWith(t, FALSE)
ResumeTimed(t) == ResumeWith(t, TRUE)

\* the task is cancelled while it waits: CancelledError is raised at the await
Cancel(t) ==
    /\ pc[t] = "await"
    /\ cur = NoTask
    /\ AfterTry(t, Fail("CancelledError"),
                Entry(t, "list", Unrecorded, Fail("CancelledError")))
    /\ UNCHANGED <<instVars, tools, loaded, ret, built, listed, writes, passes, mutated>>

\* after the loop: publish the cache and the flag, and get_tools() returns
\* list(self._tools)
Finish(t) ==
    /\ pc[t] = "loop"
    /\ cur = t
    /\ idx[t] > Len(servers)
    /\ tools' = loaded_tools[t]
    /\ loaded' = TRUE
    /\ writes' = writes + 1
    /\ LET c == ListCopy(heap, loaded_tools[t])
       IN /\ heap' = c.heap
          /\ ret' = [ret EXCEPT ![t] = c.ref]
    /\ pc' = [pc EXCEPT ![t] = "done"]
    /\ cur' = NoTask
    /\ UNCHANGED <<instVars, idx, loaded_tools, failures, exc, log, built, listed, passes,
                   mutated>>

\* the caller changes the list it was given
MutOps == {"append", "pop", "reverse"}
RECURSIVE Reverse(_)
Reverse(s) == IF s = <<>> THEN <<>> ELSE Append(Reverse(Tail(s)), Head(s))
ApplyOp(op, s) ==
    CASE op = "append" -> Append(s, Handle(0, "z"))
      [] op = "pop" -> IF s = <<>> THEN s ELSE Tail(s)
      [] OTHER -> Reverse(s)

Mutate(t) ==
    /\ pc[t] = "done"
    /\ cur = NoTask
    /\ ~mutated[t]
    /\ \E op \in MutOps : heap' = [heap EXCEPT ![ret[t]] = ApplyOp(op, @)]
    /\ mutated' = [mutated EXCEPT ![t] = TRUE]
    /\ UNCHANGED <<instVars, tools, loaded, callVars, cur, built, listed, writes, passes>>

\* -------------------------------------------------------- specifications
\* calls one after another on well-formed descriptors
Next ==
    \/ ConstructExplicit
    \/ \E t \in Tasks : SeqStart(t)
    \/ \E t \in Tasks : BuildRaises(t)
    \/ \E t \in Tasks : BuildAndAwait(t)
    \/ \E t \in Tasks : Resume(t)
    \/ \E t \in Tasks : Finish(t)

Spec == Init /\ [][Next]_vars

\* the same, with callers that change the lists they were given
NextMut ==
    \/ ConstructExplicit
    \/ \E t \in Tasks : SeqStart(t)
    \/ \E t \in Tasks : BuildRaises(t)
    \/ \E t \in Tasks : BuildAndAwait(t)
    \/ \E t \in Tasks : Resume(t)
    \/ \E t \in Tasks : Finish(t)
    \/ \E t \in Tasks : Mutate(t)

SpecMut == Init /\ [][NextMut]_vars


\* concurrent calls on well-formed descriptors
NextConc ==
    \/ ConstructConc
    \/ \E t \in Tasks : ConcStart(t)
    \/ \E t \in Tasks : BuildRaises(t)
    \/ \E t \in Tasks : BuildAndAwait(t)
    \/ \E t \in Tasks : Resume(t)
    \/ \E t \in Tasks : Finish(t)

SpecConc == Init /\ [][NextConc]_vars

\* calls one after another that may be cancelled, on descriptor lists that
\* may hold an entry that is not a mapping
NextAbort ==
    \/ ConstructAny
    \/ \E t \in Tasks : SeqStart(t)
    \/ \E t \in Tasks : BadDescriptor(t)
    \/ \E t \in Tasks : BuildRaises(t)
    \/ \E t \in Tasks : BuildAndAwait(t)
    \/ \E t \in Tasks : Resume(t)
    \/ \E t \in Tasks : Cancel(t)
    \/ \E t \in Tasks : Finish(t)

SpecAbort == Init /\ [][NextAbort]_vars

\* construction alone
NextCfg ==
    \/ ConstructExplicit
    \/ ConstructFromConfig

SpecCfg == Init /\ [][NextCfg]_vars

\* calls one after another; the event loop runs every task that can run
\* and the timer of asyncio.wait_for fires
NextLive ==
    \/ ConstructExplicit
    \/ \E t \in Tasks : SeqStart(t)
    \/ \E t \in Tasks : BuildRaises(t)
    \/ \E t \in Tasks : BuildAndAwait(t)
    \/ \E t \in Tasks : ResumeTimed(t)
    \/ \E t \in Tasks : Finish(t)

Step(t) == BuildRaises(t) \/ BuildAndAwait(t) \/ ResumeTimed(t) \/ Finish(t)

SpecLive == Init /\ [][NextLive]_vars /\ \A t \in Tasks : WF_vars(Step(t))


\* ------------------------------------------------------------ properties
RECURSIVE ConcatOk(_)
\* the handles of the successful entries of a pass, in the order of the pass
ConcatOk(lg) ==
    IF lg = <<>> THEN <<>>
    ELSE (IF Head(lg).ok THEN Head(lg).tools ELSE <<>>) \o ConcatOk(Tail(lg))

RECURSIVE FailedOf(_)
\* the failed entries of a pass, in the order of the pass
FailedOf(lg) ==
    IF lg = <<>> THEN <<>>
    ELSE (IF Head(lg).ok THEN <<>> ELSE <<Head(lg)>>) \o FailedOf(Tail(lg))

RanPass(t) == loaded_tools[t] # NoRef
PassComplete(t) == pc[t] = "done" /\ RanPass(t)
Placeholder(d) == IF d.name = "<nokey>" THEN "<unnamed>" ELSE d.name

\* C1: the first get_tools() call returns the concatenation, in descriptor
\* order, of the handle sequences of the descriptors whose source succeeded,
\* each in the order the source returned it, and no handle of a descriptor
\* whose source failed.
C1_FirstCallConcat ==
    (pc[1] = "done" /\ ~mutated[1]) =>
        /\ Len(log[1]) = Len(servers)
        /\ \A k \in 1..Len(log[1]) : log[1][k].i = k
        /\ heap[ret[1]] = ConcatOk(log[1])
        /\ \A k \in 1..Len(heap[ret[1]]) :
              LET h == heap[ret[1]][k]
              IN h.src \in 1..Len(servers) /\ log[1][h.src].ok
                    /\ \E j \in 1..Len(log[1][h.src].tools) : log[1][h.src].tools[j] = h

C1_Witness ==
    /\ pc[1] = "done" /\ ~mutated[1]
    /\ Len(servers) = 2
    /\ log[1][1].ok /\ Len(log[1][1].tools) = 2
    /\ log[1][2].ok /\ Len(log[1][2].tools) = 1
    /\ Len(heap[ret[1]]) = 3

\* C2: in a pass every failed descriptor contributes exactly one skip reason
\* carrying its name (the placeholder when it has none) and every successful
\* one none; after the pass, successes plus skip reasons equals N.
C2_OneSkipPerFailure ==
    \A t \in Tasks :
        LET failed == FailedOf(log[t])
        IN /\ Len(failures[t]) = Len(failed)
           /\ \A k \in 1..Len(failed) :
                 failures[t][k].name = Placeholder(servers[failed[k].i])
           /\ PassComplete(t) =>
                 Len(failures[t]) + Cardinality({k \in 1..Len(log[t]) : log[t][k].ok})
                    = Len(servers)

C2_Witness ==
    /\ PassComplete(1)
    /\ Len(servers) = 2
    /\ servers[1].name = NoName
    /\ ~log[1][1].ok /\ log[1][1].exc = "TimeoutError"
    /\ log[1][2].ok
    /\ failures[1] = <<[name |-> "<unnamed>", reason |-> "timed out"]>>

\* C3: with calls made one after another the factory is invoked at most once
\* per descriptor and the list-tools call at most once per descriptor over
\* all calls (once each descriptor whose factory returned); a call after the
\* completed pass invokes neither and returns what the first call returned,
\* also when the pass skipped descriptors.
C3_LoadOnce ==
    /\ passes <= 1
    /\ \A i \in 1..MaxServers : built[i] <= 1 /\ listed[i] <= 1
    /\ \A t \in Tasks \ {1} :
          pc[t] = "done" =>
            /\ ~RanPass(t) /\ log[t] = <<>>
            /\ \A i \in 1..Len(servers) : built[i] = 1
            /\ \A i \in 1..Len(servers) :
                  listed[i] = (IF log[1][i].stage = "list" THEN 1 ELSE 0)
            /\ ~mutated[t] => heap[ret[t]] = ConcatOk(log[1])
            /\ (~mutated[t] /\ ~mutated[1]) => heap[ret[t]] = heap[ret[1]]

C3_Witness ==
    /\ pc[1] = "done" /\ pc[2] = "done"
    /\ ~mutated[1] /\ ~mutated[2]
    /\ Len(servers) = 2
    /\ ~log[1][1].ok /\ log[1][2].ok
    /\ Len(heap[ret[2]]) = 2
    /\ built[1] = 1 /\ built[2] = 1

\* C4: whatever per-server failures occur, get_tools() does not raise: the
\* descriptors after a failing one are still processed, the pass ends with
\* loaded = TRUE and a sequence is returned.
C4_NeverRaises ==
    \A t \in Tasks :
        /\ pc[t] # "raised"
        /\ exc[t] = NoExc
        /\ pc[t] = "done" =>
              /\ loaded
              /\ ret[t] # NoRef
              /\ RanPass(t) => Len(log[t]) = Len(servers)

C4_Witness ==
    /\ PassComplete(1)
    /\ Len(servers) = 2
    /\ ~log[1][1].ok /\ log[1][1].stage = "factory" /\ log[1][1].exc = "RuntimeError"
    /\ ~log[1][2].ok /\ log[1][2].stage = "list" /\ log[1][2].exc = "FileNotFoundError"
    /\ heap[ret[1]] = <<>>
    /\ loaded

\* C5: under any interleaving of get_tools() calls the load sequence runs
\* at most once: each source is queried at most once, and the cache is
\* assigned once and never again.
C5_SingleLoad ==
    /\ passes <= 1
    /\ writes <= 1
    /\ \A i \in 1..MaxServers : listed[i] <= 1

\* C8: get_tools() returns a new list each time: whatever the callers do
\* to the lists they were given, the cache keeps the content the pass
\* computed and later calls return it.
C8_FreshCopy ==
    /\ \A t \in Tasks : pc[t] = "done" =>
          /\ ret[t] # tools
          /\ \A u \in Tasks \ {t} : pc[u] = "done" => ret[u] # ret[t]
          /\ ~mutated[t] => heap[ret[t]] = heap[tools]
    /\ loaded => heap[tools] = ConcatOk(log[1])

C8_Witness ==
    /\ pc[1] = "done" /\ mutated[1]
    /\ pc[2] = "done" /\ ~mutated[2]
    /\ Len(heap[tools]) = 2
    /\ heap[ret[1]] # heap[tools]
    /\ heap[ret[2]] = heap[tools]


\* the file the constructor read, when it read one
FileRead ==
    LET p == DefaultServersConfigPath(cfgIn.env1, cfgIn.env2, cfgIn.existing)
        f == ResolvedFile(cfgIn)
    IN /\ constructed # "new"
       /\ ~cfgIn.explicit
       /\ p # "none"
       /\ f.kind # "missing"
       /\ ~(f.kind = "yaml" /\ ~f.yamlOk)

\* C6 as claimed: when no descriptor list is passed and config resolution
\* fails, the constructor raises the config error to the caller.
C6_ConfigErrorRaised ==
    (constructed # "new" /\ ~cfgIn.explicit /\ cfgExc # NoExc) =>
        (constructed = "raised" /\ initExc = cfgExc)

\* C6 as amended: when no descriptor list is passed and loading the resolved
\* config file fails, the constructor does not raise: it yields a usable
\* instance with an empty descriptor list, an empty cache and loaded = FALSE.
C6_ConfigErrorCaught ==
    (constructed # "new" /\ ~cfgIn.explicit /\ cfgExc # NoExc) =>
        /\ constructed = "ok"
        /\ initExc = NoExc
        /\ servers = <<>>
        /\ heap[tools] = <<>>
        /\ ~loaded

C6_Witness ==
    /\ constructed = "ok"
    /\ ~cfgIn.explicit
    /\ cfgIn.env1 = "set" /\ cfgIn.envFile = "json"
    /\ cfgIn.data = PyDict(PyStr(1), PyList(ListB), PyAbsent)
    /\ cfgExc = "TypeError"
    /\ servers = <<>>

\* C7: for a config file whose top level is a mapping, the descriptors are
\* the list stored under the first key present among servers, mcpServers,
\* mcp_servers, whatever list that key holds.
C7_FirstPresentKeyWins ==
    (FileRead /\ cfgIn.data.t = "dict") =>
        LET present == {k \in 1..3 : cfgIn.data.v[k].t # "absent"}
        IN \A k \in present :
              ((\A j \in present : k <= j) /\ cfgIn.data.v[k].t = "list") =>
                  (cfgExc = NoExc /\ servers = cfgIn.data.v[k].v)

\* the entries of the list-tools calls of a pass
ListEntries(t) == {k \in 1..Len(log[t]) : log[t][k].stage = "list"}
\* the position among the failures of the k-th entry of the log
FailurePos(t, k) == Len(FailedOf(SubSeq(log[t], 1, k)))

\* C9 as claimed: a list-tools call that has not completed before the timeout
\* elapses, also one completing exactly at the boundary, is recorded as a
\* timeout skip and never as a success.
C9_BoundaryIsTimeout ==
    \A t \in Tasks : \A k \in ListEntries(t) :
        (log[t][k].when = Never \/ log[t][k].when >= TimeoutS) =>
            (~log[t][k].ok /\ log[t][k].exc = "TimeoutError")

C9_TimeoutSafety ==
    \A t \in Tasks : \A k \in ListEntries(t) :
        LET e == log[t][k]
        IN /\ (e.when = Never \/ e.when > TimeoutS) => (~e.ok /\ e.exc = "TimeoutError")
           /\ (e.when # Never /\ e.when < TimeoutS) => e.exc # "TimeoutError"
           /\ e.exc = "TimeoutError" =>
                 /\ ~e.ok
                 /\ failures[t][FailurePos(t, k)].reason = "timed out"
                 /\ failures[t][FailurePos(t, k)].name = Placeholder(servers[e.i])

\* C9 as amended: each list-tools call is bounded by the timeout on its own:
\* a call that has not completed when the timeout has elapsed is recorded as
\* a timeout skip and never as a success, except that a call completing
\* exactly at the boundary is recorded either as its own outcome or as a
\* timeout skip; the load goes on with the next descriptor, so a pass
\* completes with loaded = TRUE even if a source never responds.
C9_TimeoutBounded ==
    /\ []C9_TimeoutSafety
    /\ \A t \in Tasks :
          (pc[t] \in {"loop", "await"}) ~>
              (pc[t] = "done" /\ loaded /\ Len(log[t]) = Len(servers))

C9_Witness ==
    /\ PassComplete(1)
    /\ loaded
    /\ Len(servers) = 2
    /\ log[1][1].when = Never /\ log[1][1].exc = "TimeoutError"
    /\ log[1][2].ok /\ Len(log[1][2].tools) = 2
    /\ Len(heap[tools]) = 2

\* C10: while loaded is FALSE the cache is the empty list made by the
\* constructor; a pass that is aborted (cancelled at an await, or stopped
\* by a descriptor that is not a mapping) publishes nothing, and the next
\* call runs a pass of its own from the first descriptor.
C10_PublishAtEnd ==
    /\ (constructed = "ok" /\ ~loaded) =>
          (tools = 1 /\ heap[tools] = <<>> /\ writes = 0)
    /\ loaded => \E t \in Tasks : PassComplete(t) /\ Len(log[t]) = Len(servers)
    /\ \A t \in Tasks :
          /\ pc[t] = "raised" =>
                /\ exc[t] \in {"CancelledError", "AttributeError"}
                /\ ret[t] = NoRef
                /\ (/\ \A u \in Tasks : u < t => pc[u] = "raised"
                    /\ \A u \in Tasks : u > t => pc[u] = "idle") =>
                        (~loaded /\ passes = t)
          /\ (pc[t] \notin {"idle", "raised"} /\ \A u \in Tasks : u < t => pc[u] = "raised") =>
                /\ RanPass(t)
                /\ passes = t
                /\ \A k \in 1..Len(log[t]) : log[t][k].i = k
                /\ pc[t] \in {"loop", "await"} => idx[t] = Len(log[t]) + 1

C10_Witness ==
    /\ pc[1] = "raised" /\ exc[1] = "CancelledError" /\ idx[1] = 2
    /\ pc[2] = "done" /\ RanPass(2)
    /\ Len(servers) = 2
    /\ passes = 2
    /\ built[1] = 2 /\ listed[2] = 2
    /\ log[2][1].i = 1
    /\ Len(heap[ret[2]]) = 3
    /\ heap[ret[2]] = ConcatOk(log[2])

====
